---- MODULE Spec2Model ----
(***************************************************************************)
(* State-machine model of the RAG chat service:                            *)
(*   app.py          the /chat, /conversation/{id} handlers and the        *)
(*                   in-memory conversation store                          *)
(*   rag_engine.py   RAGEngine.get_response / build_prompt                 *)
(*   vectorstore.py  VectorStore.search / get_context / get_sources        *)
(*   config.py       the settings                                          *)
(*                                                                         *)
(* Text is modelled as a sequence of tokens (strings); a whitespace token  *)
(* is one whitespace character, any other token is a run of non-blank      *)
(* characters.  Real numbers (distances, similarities, thresholds) are     *)
(* exact rationals [n, d] with d > 0.                                      *)
(***************************************************************************)
EXTENDS Integers, Sequences, FiniteSets, TLC

VARIABLES
    conversations,  \* app.py:34   session id -> list of messages
    settings,       \* config.py:49 the settings object (the fields read here)
    last,           \* the request handled last and what it returned
    turns,          \* number of chat turns handled so far (bounds the run)
    failures,       \* number of external-call failures so far (bounds the run)
    inflight,       \* the chat requests being handled at once: client -> request
    running         \* the client whose handler holds the event loop, 0 for none

vars == <<conversations, settings, last, turns, failures, inflight, running>>

----------------------------------------------------------------------------
(* Bounds of the model *)

\* chat turns (with a non-empty message) in one short run
MaxTurns == 4
\* chat turns (with a non-empty message) in one long run
MaxLongTurns == 11
\* external calls (embedding, index search, completion) that fail in one run
MaxFailures == 1
\* number of documents in the loaded metadata
MetaLen == 2
\* length of the longest history passed to build_prompt on its own
MaxPromptHistory == 22
\* chat requests in flight at once on one session
MaxClients == 3

(* Program constants *)

\* config.py:24
TOP_K_RESULTS == 3
\* config.py:28
MAX_HISTORY_LENGTH == 10
\* app.py:116-117  "Keep only last 10 exchanges (20 messages)"
MaxStoredMessages == 20
\* vectorstore.py:166  doc[:100]
SourceClip == 100

----------------------------------------------------------------------------
(* Rationals *)

Rat(n, d) == [n |-> n, d |-> d]

\* a >= b, both with positive denominators
RatGE(a, b) == a.n * b.d >= b.n * a.d

\* config.py:25  SIMILARITY_THRESHOLD: float = 0.5
DefaultThreshold == Rat(1, 2)

\* Threshold settings the environment may supply (config.py:44-46, env file)
Thresholds == {Rat(0, 1), DefaultThreshold, Rat(3, 4)}

\* L2 distances the index may report for a stored vector: 0, 0.5, 1, 3
Distances == {Rat(0, 1), Rat(1, 2), Rat(1, 1), Rat(3, 1)}

\* The distance faiss reports for a missing neighbour (float32 max, about
\* 3.4e38): a value whose similarity is positive and below every positive
\* threshold.
FLT_MAX == Rat(1000000, 1)

----------------------------------------------------------------------------
(* Text *)

Whitespace == {" ", "\n"}

RECURSIVE lstrip(_)
lstrip(s) ==
    IF s # <<>> /\ Head(s) \in Whitespace THEN lstrip(Tail(s)) ELSE s

RECURSIVE rstrip(_)
rstrip(s) ==
    IF s # <<>> /\ s[Len(s)] \in Whitespace
    THEN rstrip(SubSeq(s, 1, Len(s) - 1))
    ELSE s

\* str.strip()  (app.py:87)
strip(s) == rstrip(lstrip(s))

\* Python's s[-n:] for n > 0
LastN(s, n) == IF Len(s) > n THEN SubSeq(s, Len(s) - n + 1, Len(s)) ELSE s

----------------------------------------------------------------------------
(* vectorstore.py: the loaded store and VectorStore.search *)

\* self.metadata (vectorstore.py:43-44): the document texts, in index order.
\* A document is its text token and its length in characters.
metadata ==
    [i \in 1..MetaLen |->
        [text |-> ToString(i), chars |-> IF i % 2 = 1 THEN 40 ELSE 150]]

\* What self.index.search(query_vector, top_k) may return (vectorstore.py:110):
\* top_k (index, distance) pairs in ascending distance; a stored vector has an
\* index >= 0 (an index >= len(metadata) when the index file holds more
\* vectors than the metadata file has entries); a missing neighbour is
\* reported as index -1 at distance FLT_MAX.
Neighbours ==
    {[idx |-> i, distance |-> d] : i \in 0..MetaLen, d \in Distances}
        \cup {[idx |-> -1, distance |-> FLT_MAX]}

IndexReplies ==
    {r \in [1..TOP_K_RESULTS -> Neighbours] :
        \A i \in 1..(TOP_K_RESULTS - 1) : RatGE(r[i + 1].distance, r[i].distance)}

\* Python's seq[i]: defined for -len <= i < len, negative i counts from the end
PyIndexOK(seq, i) == -Len(seq) <= i /\ i < Len(seq)
PyIndex(seq, i) == IF i >= 0 THEN seq[i + 1] ELSE seq[Len(seq) + i + 1]

\* vectorstore.py:118  similarity = 1 / (1 + distance)
Similarity(distance) == Rat(distance.d, distance.d + distance.n)

\* vectorstore.py:115  if idx < len(self.metadata)
IdxAccepted(idx) == idx < Len(metadata)

\* vectorstore.py:121  if similarity >= settings.SIMILARITY_THRESHOLD
PassesThreshold(similarity, threshold) == RatGE(similarity, threshold)

\* One iteration of the loop body, vectorstore.py:115-123: the results this
\* (idx, distance) pair appends; raised = TRUE when metadata[idx] raises
\* IndexError.
search_step(pair, threshold) ==
    IF IdxAccepted(pair.idx)
    THEN LET similarity == Similarity(pair.distance)
         IN  IF PassesThreshold(similarity, threshold)
             THEN IF PyIndexOK(metadata, pair.idx)
                  THEN [raised |-> FALSE,
                        emit |-> <<[doc |-> PyIndex(metadata, pair.idx),
                                    score |-> similarity]>>]
                  ELSE [raised |-> TRUE, emit |-> <<>>]
             ELSE [raised |-> FALSE, emit |-> <<>>]
    ELSE [raised |-> FALSE, emit |-> <<>>]

\* The loop of vectorstore.py:113-123 over the pairs from position i on
RECURSIVE search_loop(_, _, _, _)
search_loop(pairs, i, threshold, results) ==
    IF i > Len(pairs)
    THEN [ok |-> TRUE, results |-> results]
    ELSE LET out == search_step(pairs[i], threshold)
         IN  IF out.raised
             THEN [ok |-> FALSE, results |-> <<>>]
             ELSE search_loop(pairs, i + 1, threshold, results \o out.emit)

\* The outcomes of the two external calls of one search: the embedding
\* request (vectorstore.py:107) and the index search (vectorstore.py:110)
SearchFaults == {"none", "embed", "index"}

\* VectorStore.search (vectorstore.py:91-130): [ok, results]; ok = FALSE is the
\* re-raised exception of lines 128-130.
search(reply, fault, threshold) ==
    IF fault # "none"
    THEN [ok |-> FALSE, results |-> <<>>]
    ELSE search_loop(reply, 1, threshold, <<>>)

\* vectorstore.py:146
NoContext == <<"No relevant information found in the knowledge base.">>

\* f"{score:.2f}" (vectorstore.py:150): the score in hundredths, rounded
Fmt2(score) == ToString((200 * score.n + score.d) \div (2 * score.d))

\* vectorstore.py:150  one "[Source i] (Relevance: s)\n{doc}\n" block
ContextPart(i, r) ==
    <<"[Source", ToString(i), "]", "(Relevance:", Fmt2(r.score), ")", "\n",
      r.doc.text, "\n">>

\* "\n".join(context_parts) (vectorstore.py:148-152), parts i..Len(results)
RECURSIVE JoinParts(_, _)
JoinParts(results, i) ==
    IF i > Len(results) THEN <<>>
    ELSE IF i = Len(results) THEN ContextPart(i, results[i])
    ELSE ContextPart(i, results[i]) \o <<"\n">> \o JoinParts(results, i + 1)

\* get_context raising when nothing was found instead of returning NoContext
get_context_raise_when_empty(reply, fault, threshold) ==
    LET found == search(reply, fault, threshold)
    IN  IF ~found.ok \/ found.results = <<>> THEN [ok |-> FALSE, context |-> <<>>]
        ELSE [ok |-> TRUE, context |-> JoinParts(found.results, 1)]

\* VectorStore.get_context (vectorstore.py:132-152): [ok, context]
get_context(reply, fault, threshold) ==
    LET found == search(reply, fault, threshold)
    IN  IF ~found.ok THEN [ok |-> FALSE, context |-> <<>>]
        ELSE IF found.results = <<>> THEN [ok |-> TRUE, context |-> NoContext]
        ELSE [ok |-> TRUE, context |-> JoinParts(found.results, 1)]

\* vectorstore.py:166  doc[:100] + "..." if len(doc) > 100 else doc
ClipSource(doc) ==
    IF doc.chars > SourceClip
    THEN <<doc.text, "[:100]", "...">>
    ELSE <<doc.text>>

\* VectorStore.get_sources (vectorstore.py:154-166): [ok, sources]
get_sources(reply, fault, threshold) ==
    LET found == search(reply, fault, threshold)
    IN  IF ~found.ok THEN [ok |-> FALSE, sources |-> <<>>]
        ELSE [ok |-> TRUE,
              sources |-> [i \in 1..Len(found.results) |->
                              ClipSource(found.results[i].doc)]]

----------------------------------------------------------------------------
(* rag_engine.py *)

\* config.py:31-42
SYSTEM_PROMPT == <<"You are Yoga Master Dhalsim ...">>

\* rag_engine.py:132
fallback_response ==
    <<"I apologize, but I encountered an error processing your question. Please try again or rephrase your question.">>

Message(role, content) == [role |-> role, content |-> content]

\* Python lists are objects: a heap is a sequence of lists and a list is
\* named by its address, its position in the heap.  list(...) and a slice
\* allocate a new list; append and extend change a list in place.
Alloc(heap, list) == [heap |-> Append(heap, list), ret |-> Len(heap) + 1]

\* format_conversation_history trimming the caller's list in place:
\* del history[:-max_messages]
format_conversation_history_in_place(heap, history) ==
    LET max_messages == MAX_HISTORY_LENGTH * 2
    IN  IF Len(heap[history]) > max_messages
        THEN [heap |-> [heap EXCEPT ![history] = LastN(@, max_messages)],
              ret |-> history]
        ELSE [heap |-> heap, ret |-> history]

\* RAGEngine.format_conversation_history (rag_engine.py:29-44) on the heap:
\* history is the address of the caller's list; the slice of line 42 is a
\* new list bound to the local name; ret is the address returned.
format_conversation_history_py(heap, history) ==
    LET max_messages == MAX_HISTORY_LENGTH * 2
    IN  IF Len(heap[history]) > max_messages
        THEN Alloc(heap, LastN(heap[history], max_messages))
        ELSE [heap |-> heap, ret |-> history]

\* RAGEngine.format_conversation_history (rag_engine.py:29-44): the list
\* returned for a history
format_conversation_history(history) ==
    LET r == format_conversation_history_py(<<history>>, 1)
    IN  r.heap[r.ret]

\* The f-string of rag_engine.py:70-77
UserPrompt(query, context) ==
    <<"Based on the following context from the yoga knowledge base, please answer the question.",
      "\n", "\n", "Context:", "\n">>
        \o context
        \o <<"\n", "\n", "Question:", " ">>
        \o query
        \o <<"\n", "\n", "Please provide a helpful, accurate response ...">>

\* RAGEngine.build_prompt (rag_engine.py:46-84) on the heap:
\* conversation_history is the address of the caller's list; ret is the
\* address of the new list `messages` (line 58), extended with the formatted
\* history (line 67) and appended the user message (line 79).
build_prompt_py(heap, query, context, conversation_history) ==
    LET messages == Alloc(heap, <<Message("system", SYSTEM_PROMPT)>>)
        formatted_history ==
            format_conversation_history_py(messages.heap, conversation_history)
        extended ==
            [formatted_history.heap EXCEPT
                ![messages.ret] = @ \o formatted_history.heap[formatted_history.ret]]
        appended ==
            [extended EXCEPT
                ![messages.ret] = Append(@, Message("user", UserPrompt(query, context)))]
    IN  [heap |-> appended, ret |-> messages.ret]

\* RAGEngine.build_prompt (rag_engine.py:46-84): the messages returned
build_prompt(query, context, conversation_history) ==
    LET r == build_prompt_py(<<conversation_history>>, query, context, 1)
    IN  r.heap[r.ret]

\* The caller's history list after build_prompt returned
HistoryAfterPrompt(query, context, conversation_history) ==
    build_prompt_py(<<conversation_history>>, query, context, 1).heap[1]

\* Where one turn's external calls may fail: the embedding request or the
\* index search of the first search (get_context), those of the second search
\* (get_sources), or the completion request (rag_engine.py:115).
Faults == {"none", "embed1", "index1", "embed2", "index2", "completion"}

FaultOfSearch1(fault) ==
    IF fault = "embed1" THEN "embed" ELSE IF fault = "index1" THEN "index" ELSE "none"

FaultOfSearch2(fault) ==
    IF fault = "embed2" THEN "embed" ELSE IF fault = "index2" THEN "index" ELSE "none"

\* The except branch of get_response (rag_engine.py:129-133); context and
\* prompt record how far the try block got.
Fallback(context, prompt) ==
    [response |-> fallback_response, sources |-> <<>>, completed |-> FALSE,
     context |-> context, prompt |-> prompt]

\* get_response whose except branch returns the sources gathered so far
get_response_keep_sources(query, conversation_history, env, threshold) ==
    LET ctx == get_context(env.reply, FaultOfSearch1(env.fault), threshold)
        src == get_sources(env.reply, FaultOfSearch2(env.fault), threshold)
        messages == build_prompt(query, ctx.context, conversation_history)
    IN  IF ~ctx.ok THEN Fallback(<<>>, <<>>) @@ [history |-> conversation_history]
        ELSE IF ~src.ok
        THEN Fallback(ctx.context, <<>>) @@ [history |-> conversation_history]
        ELSE IF env.fault = "completion"
        THEN [Fallback(ctx.context, messages) EXCEPT !.sources = src.sources]
                @@ [history |-> conversation_history]
        ELSE [response |-> env.text, sources |-> src.sources, completed |-> TRUE,
              context |-> ctx.context, prompt |-> messages,
              history |-> conversation_history]

\* RAGEngine.get_response (rag_engine.py:86-133).  env is what the outside
\* world does during the call: reply, the pairs the index returns for this
\* query; fault, the external call that fails, if any; text, what the
\* completion request returns.  prompt is the message list given to the
\* completion request, <<>> when it was not made; history is the caller's
\* list (the one passed as conversation_history) when the call returns.
get_response(query, conversation_history, env, threshold) ==
    LET ctx == get_context(env.reply, FaultOfSearch1(env.fault), threshold)
        src == get_sources(env.reply, FaultOfSearch2(env.fault), threshold)
        messages == build_prompt(query, ctx.context, conversation_history)
        after == HistoryAfterPrompt(query, ctx.context, conversation_history)
    IN  IF ~ctx.ok THEN Fallback(<<>>, <<>>) @@ [history |-> conversation_history]
        ELSE IF ~src.ok
        THEN Fallback(ctx.context, <<>>) @@ [history |-> conversation_history]
        ELSE IF env.fault = "completion"
        THEN Fallback(ctx.context, messages) @@ [history |-> after]
        ELSE [response |-> env.text, sources |-> src.sources, completed |-> TRUE,
              context |-> ctx.context, prompt |-> messages, history |-> after]

----------------------------------------------------------------------------
(* app.py: the handlers *)

\* Session ids the clients use
SessionIds == {"s1", "s2"}

\* Message texts the clients send: empty, blank, and a word with and without
\* surrounding whitespace
RequestMessages == {<<>>, <<" ">>, <<"yoga">>, <<" ", "yoga", "\n">>}

\* Texts the completion request returns (rag_engine.py:124)
CompletionTexts == {<<"Namaste">>}

\* The pairs the index returns for the queries of the chat runs: two stored
\* neighbours close by and a missing one; nothing close; an index past the
\* metadata between two stored neighbours.
ChatReplies ==
    {   <<[idx |-> 0, distance |-> Rat(0, 1)], [idx |-> 1, distance |-> Rat(1, 1)],
          [idx |-> -1, distance |-> FLT_MAX]>>,
        <<[idx |-> 0, distance |-> Rat(3, 1)], [idx |-> 1, distance |-> Rat(3, 1)],
          [idx |-> -1, distance |-> FLT_MAX]>>,
        <<[idx |-> 1, distance |-> Rat(0, 1)], [idx |-> MetaLen, distance |-> Rat(1, 2)],
          [idx |-> 0, distance |-> Rat(3, 1)]>>   }

\* The fields of `last`; every request fills the ones it has.  For a chat
\* turn: called, whether get_response was invoked; completed, whether the
\* completion request returned; prompt, the messages given to it; prior_len,
\* len(history) at app.py:97; pairs, what the index returned for the query.
\* For a call of build_prompt: history, the list passed in; history_after,
\* that list when the call returned.
Blank ==
    [op |-> "none", session_id |-> "", message |-> <<>>, status |-> 0,
     detail |-> "", response |-> <<>>, sources |-> <<>>, history |-> <<>>,
     fault |-> "none", completed |-> FALSE, context |-> <<>>, prompt |-> <<>>,
     prior_len |-> 0, pairs |-> <<>>, results |-> <<>>, ok |-> TRUE,
     called |-> FALSE, history_after |-> <<>>]

\* AppendTurn with the two appends in the other order
AppendTurnAssistantFirst(history, user_message, response) ==
    history \o <<Message("assistant", response), Message("user", user_message)>>

\* app.py:106-113  the two appends
AppendTurn(history, user_message, response) ==
    history \o <<Message("user", user_message), Message("assistant", response)>>

\* Truncate with the slice one message too long: history[-21:]
TruncateOffByOne(history) ==
    IF Len(history) > MaxStoredMessages
    THEN LastN(history, MaxStoredMessages + 1)
    ELSE history

\* Truncate dropping only the oldest message: history.pop(0)
TruncateDropOne(history) ==
    IF Len(history) > MaxStoredMessages
    THEN Tail(history)
    ELSE history

\* Truncate keeping the oldest messages: history[:20]
TruncateKeepOldest(history) ==
    IF Len(history) > MaxStoredMessages
    THEN SubSeq(history, 1, MaxStoredMessages)
    ELSE history

\* app.py:116-117
Truncate(history) ==
    IF Len(history) > MaxStoredMessages
    THEN LastN(history, MaxStoredMessages)
    ELSE history

\* app.py:93-94  a new session starts with an empty list
EnsureSession(convs, session_id) ==
    IF session_id \notin DOMAIN convs
    THEN convs @@ (session_id :> <<>>)
    ELSE convs

\* The try block of chat (app.py:82-125), rag_engine being initialized:
\* raised = TRUE with the HTTPException raised, or the ChatResponse returned;
\* conversations is the store when the block is left.  history and
\* conversations[session_id] are the same list (line 97), so the appends of
\* lines 106-113 act on the list as get_response left it.
chat_try(convs, session_id, message, env, threshold) ==
    LET user_message == strip(message)
        created == EnsureSession(convs, session_id)
        history == created[session_id]
        \* the block from line 100 on, out being what get_response returned
        then(out) ==
            [raised |-> FALSE, status |-> 200, detail |-> "",
             conversations |->
                [created EXCEPT ![session_id] =
                    Truncate(AppendTurn(out.history, user_message, out.response))],
             out |-> out, called |-> TRUE, prior_len |-> Len(history)]
    IN  IF user_message = <<>>
        THEN [raised |-> TRUE, status |-> 400, detail |-> "Message cannot be empty",
              conversations |-> convs,
              out |-> Fallback(<<>>, <<>>) @@ [history |-> <<>>], called |-> FALSE,
              prior_len |-> 0]
        ELSE \* get_response is called once
             CHOOSE t \in {then(out) : out \in {get_response(user_message, history,
                                                            env, threshold)}} : TRUE

\* app.py:127-129  except Exception as e: raise HTTPException(status_code=500,
\* detail=str(e)); HTTPException is an Exception, so the handler's own
\* HTTPException(400) is caught here too.
ExceptionStatus(raised_status) == 500

\* str(e) of the HTTPException(400) of app.py:90
ExceptionDetail(raised_detail) ==
    IF raised_detail = "Message cannot be empty"
    THEN "400: Message cannot be empty"
    ELSE raised_detail

\* chat (app.py:80-129): the record stored in `last`, and the store afterwards
chat(convs, session_id, message, env, threshold) ==
    LET \* what the handler leaves, t being how the try block ended
        ended(t) ==
            [conversations |-> t.conversations,
             result |->
                IF t.raised
                THEN [Blank EXCEPT !.op = "chat", !.session_id = session_id,
                                   !.message = message,
                                   !.status = ExceptionStatus(t.status),
                                   !.detail = ExceptionDetail(t.detail)]
                ELSE [Blank EXCEPT !.op = "chat", !.session_id = session_id,
                                   !.message = message, !.status = t.status,
                                   !.response = t.out.response,
                                   !.sources = t.out.sources,
                                   !.fault = env.fault,
                                   !.completed = t.out.completed,
                                   !.context = t.out.context,
                                   !.prompt = t.out.prompt,
                                   !.prior_len = t.prior_len,
                                   !.pairs = env.reply,
                                   !.called = t.called]]
    IN  \* the try block runs once
        CHOOSE r \in {ended(t) : t \in {chat_try(convs, session_id, message,
                                                  env, threshold)}} : TRUE

\* get_conversation (app.py:133-141)
get_conversation(convs, session_id) ==
    [conversations |-> convs,
     result |-> [Blank EXCEPT !.op = "get", !.session_id = session_id,
                              !.status = 200,
                              !.history = IF session_id \notin DOMAIN convs
                                          THEN <<>>
                                          ELSE convs[session_id]]]

\* del conversations[session_id]
Del(convs, session_id) ==
    [k \in DOMAIN convs \ {session_id} |-> convs[k]]

\* clear_conversation without the membership test: del raises KeyError for a
\* session that is not stored
clear_conversation_unguarded(convs, session_id) ==
    IF session_id \in DOMAIN convs
    THEN [conversations |-> Del(convs, session_id),
          result |-> [Blank EXCEPT !.op = "clear", !.session_id = session_id,
                                   !.status = 200, !.detail = "cleared"]]
    ELSE [conversations |-> convs,
          result |-> [Blank EXCEPT !.op = "clear", !.session_id = session_id,
                                   !.status = 500, !.detail = "KeyError"]]

\* clear_conversation (app.py:145-151)
clear_conversation(convs, session_id) ==
    IF session_id \in DOMAIN convs
    THEN [conversations |-> Del(convs, session_id),
          result |-> [Blank EXCEPT !.op = "clear", !.session_id = session_id,
                                   !.status = 200, !.detail = "cleared"]]
    ELSE [conversations |-> convs,
          result |-> [Blank EXCEPT !.op = "clear", !.session_id = session_id,
                                   !.status = 200, !.detail = "not found"]]

----------------------------------------------------------------------------
(* The service: requests handled one at a time *)

\* conversations = {} (app.py:34); the settings are the defaults of config.py
Init ==
    /\ conversations = <<>>
    /\ settings = [SIMILARITY_THRESHOLD |-> DefaultThreshold]
    /\ last = Blank
    /\ turns = 0
    /\ failures = 0
    /\ inflight = <<>>
    /\ running = 0

\* POST /chat with one request and one behaviour of the outside world
ChatWith(session_id, message, env, max_turns) ==
    LET attempted == strip(message) # <<>>
    IN  /\ attempted => turns < max_turns
        /\ env.fault # "none" => attempted /\ failures < MaxFailures
        /\ \E r \in {chat(conversations, session_id, message, env,
                          settings.SIMILARITY_THRESHOLD)} :
                /\ conversations' = r.conversations
                /\ last' = r.result
        /\ turns' = IF attempted THEN turns + 1 ELSE turns
        /\ failures' = IF env.fault # "none" THEN failures + 1 ELSE failures
        /\ UNCHANGED <<settings, inflight, running>>

\* POST /chat
Chat ==
    \E session_id \in SessionIds, message \in RequestMessages,
       reply \in ChatReplies, fault \in Faults, text \in CompletionTexts :
        ChatWith(session_id, message,
                 [reply |-> reply, fault |-> fault, text |-> text], MaxTurns)

\* GET /conversation/{session_id}
GetConversation ==
    \E session_id \in SessionIds :
        LET r == get_conversation(conversations, session_id)
        IN  /\ conversations' = r.conversations
            /\ last' = r.result
            /\ UNCHANGED <<settings, turns, failures, inflight, running>>

\* DELETE /conversation/{session_id}
ClearConversation ==
    \E session_id \in SessionIds :
        LET r == clear_conversation(conversations, session_id)
        IN  /\ conversations' = r.conversations
            /\ last' = r.result
            /\ UNCHANGED <<settings, turns, failures, inflight, running>>

Next == Chat \/ GetConversation \/ ClearConversation

\* Short runs, every request and every behaviour of the outside world
Spec == Init /\ [][Next]_vars

----------------------------------------------------------------------------
(* Long runs: enough turns to fill a session's 20 messages and evict, with *)
(* fewer behaviours of the outside world per turn                          *)

LongMessages == {<<" ">>, <<" ", "yoga", "\n">>}

LongReplies ==
    {r \in ChatReplies : r[1].distance = Rat(0, 1) /\ r[TOP_K_RESULTS].idx = -1}

LongFaults == {"none", "completion"}

LongChat ==
    \E session_id \in SessionIds, message \in LongMessages,
       reply \in LongReplies, fault \in LongFaults, text \in CompletionTexts :
        ChatWith(session_id, message,
                 [reply |-> reply, fault |-> fault, text |-> text], MaxLongTurns)

LongNext == LongChat \/ GetConversation \/ ClearConversation

LongSpec == Init /\ [][LongNext]_vars

----------------------------------------------------------------------------------------------------------------------------------------
(* The retrieval functions on their own: the settings, the index reply and *)
(* the failing external call are drawn, then one call is made              *)

SearchInit ==
    /\ conversations = <<>>
    /\ settings \in [SIMILARITY_THRESHOLD : Thresholds]
    /\ \E reply \in IndexReplies, fault \in SearchFaults :
          last = [Blank EXCEPT !.op = "query", !.pairs = reply, !.fault = fault]
    /\ turns = 0
    /\ failures = 0
    /\ inflight = <<>>
    /\ running = 0

\* vectorstore.search(query)
SearchCall ==
    /\ last.op = "query"
    /\ LET r == search(last.pairs, last.fault, settings.SIMILARITY_THRESHOLD)
       IN  last' = [last EXCEPT !.op = "search", !.ok = r.ok,
                                !.results = r.results]
    /\ UNCHANGED <<conversations, settings, turns, failures, inflight, running>>

\* vectorstore.get_context(query)
ContextCall ==
    /\ last.op = "query"
    /\ LET r == get_context(last.pairs, last.fault, settings.SIMILARITY_THRESHOLD)
       IN  last' = [last EXCEPT !.op = "get_context", !.ok = r.ok,
                                !.context = r.context]
    /\ UNCHANGED <<conversations, settings, turns, failures, inflight, running>>

\* vectorstore.get_sources(query)
SourcesCall ==
    /\ last.op = "query"
    /\ LET r == get_sources(last.pairs, last.fault, settings.SIMILARITY_THRESHOLD)
       IN  last' = [last EXCEPT !.op = "get_sources", !.ok = r.ok,
                                !.sources = r.sources]
    /\ UNCHANGED <<conversations, settings, turns, failures, inflight, running>>

SearchNext == SearchCall \/ ContextCall \/ SourcesCall

SearchSpec == SearchInit /\ [][SearchNext]_vars

----------------------------------------------------------------------------------------------------------------------------------------
(* build_prompt on its own: the arguments are drawn, then one call is made *)

\* A history of n messages, distinct in content, roles alternating from
\* `first`
HistoryOfLength(n, first) ==
    [i \in 1..n |->
        Message(IF (i % 2 = 1) = (first = "user") THEN "user" ELSE "assistant",
                <<"message", ToString(i)>>)]

PromptHistories ==
    {HistoryOfLength(n, first) : n \in 0..MaxPromptHistory,
                                 first \in {"user", "assistant"}}

PromptQueries == {<<"yoga">>, <<"hatha", " ", "yoga">>}

\* The contexts get_context gives for the replies of the chat runs
PromptContexts ==
    {get_context(reply, "none", DefaultThreshold).context : reply \in ChatReplies}

PromptInit ==
    /\ conversations = <<>>
    /\ settings = [SIMILARITY_THRESHOLD |-> DefaultThreshold]
    /\ \E history \in PromptHistories, query \in PromptQueries,
          context \in PromptContexts :
          last = [Blank EXCEPT !.op = "arguments", !.history = history,
                               !.message = query, !.context = context]
    /\ turns = 0
    /\ failures = 0
    /\ inflight = <<>>
    /\ running = 0

\* rag_engine.build_prompt(query, context, history)
BuildPromptCall ==
    /\ last.op = "arguments"
    /\ LET r == build_prompt_py(<<last.history>>, last.message, last.context, 1)
       IN  last' = [last EXCEPT !.op = "build_prompt",
                                !.prompt = r.heap[r.ret],
                                !.history_after = r.heap[1]]
    /\ UNCHANGED <<conversations, settings, turns, failures, inflight, running>>

\* rag_engine.format_conversation_history(history)
FormatHistoryCall ==
    /\ last.op = "arguments"
    /\ LET r == format_conversation_history_py(<<last.history>>, 1)
       IN  last' = [last EXCEPT !.op = "format_conversation_history",
                                !.prompt = r.heap[r.ret],
                                !.history_after = r.heap[1]]
    /\ UNCHANGED <<conversations, settings, turns, failures, inflight, running>>

PromptNext == BuildPromptCall \/ FormatHistoryCall

PromptSpec == PromptInit /\ [][PromptNext]_vars

----------------------------------------------------------------------------
(* Concurrent requests on one session.  The handlers are coroutines (async *)
(* def) run by one event loop: a handler that has started keeps the loop   *)
(* until it awaits or ends, and only then may another handler run.         *)

Clients == 1..MaxClients

ConcSession == "s1"

\* The message of client c, and the text the completion request returns for it
ClientMessage(c) == <<" ", "question", ToString(c)>>
ClientAnswer(c) == <<"answer", ToString(c)>>

ConcFaults == {"none", "completion"}

\* The points of chat where the handler may stand between two steps: "call",
\* at the call of get_response (app.py:100); "update", before the appends
\* (app.py:106); "done"

\* A handler suspended at the call of get_response, as if that call were awaited
AwaitsAtCall(point) == point = "call"

\* Whether the handler awaits at a point: chat has no await, async for or
\* async with (app.py:80-129); get_response is an ordinary blocking call.
Awaits(point) == FALSE

\* The loop after a handler run by client c reached `point`
LoopAfter(c, point) == IF point = "done" \/ Awaits(point) THEN 0 ELSE c

\* A request: pc, its point; history_read, the content of the list at line
\* 97; detached, whether the list named by the local `history` is no longer
\* the one in the store (the session was deleted, or line 117 bound a new
\* list), and then alias is its content; stored, whether the request's
\* exchange was appended and the session not cleared since.
NewRequest(c) ==
    [pc |-> "arrived", session_id |-> ConcSession, message |-> ClientMessage(c),
     history_read |-> <<>>, detached |-> FALSE, alias |-> <<>>,
     response |-> <<>>, sources |-> <<>>, status |-> 0, stored |-> FALSE]

\* The content of the list the local name `history` of a request refers to
HistoryAlias(convs, req) ==
    IF req.detached THEN req.alias ELSE convs[req.session_id]

\* The requests whose local `history` is the stored list of session_id
\* become detached from it, keeping its content
Detach(reqs, convs, session_id) ==
    [c \in DOMAIN reqs |->
        IF /\ reqs[c].pc \in {"call", "update"}
           /\ reqs[c].session_id = session_id
           /\ ~reqs[c].detached
        THEN [reqs[c] EXCEPT !.detached = TRUE, !.alias = convs[session_id]]
        ELSE reqs[c]]

ConcInit ==
    /\ conversations = <<>>
    /\ settings = [SIMILARITY_THRESHOLD |-> DefaultThreshold]
    /\ last = Blank
    /\ turns = 0
    /\ failures = 0
    /\ inflight = [c \in Clients |-> NewRequest(c)]
    /\ running = 0

\* chat, app.py:82-97: validation, the session is created, history is read
ChatEnter(c) ==
    /\ running = 0
    /\ inflight[c].pc = "arrived"
    /\ LET req == inflight[c]
           user_message == strip(req.message)
           created == EnsureSession(conversations, req.session_id)
       IN  IF user_message = <<>>
           THEN /\ inflight' = [inflight EXCEPT ![c].pc = "done",
                                                ![c].status = ExceptionStatus(400)]
                /\ running' = 0
                /\ UNCHANGED conversations
           ELSE /\ conversations' = created
                /\ inflight' = [inflight EXCEPT
                                    ![c].pc = "call",
                                    ![c].history_read = created[req.session_id]]
                /\ running' = LoopAfter(c, "call")
    /\ UNCHANGED <<settings, last, turns, failures>>

\* chat, app.py:100-103: get_response with the list `history`
ChatRespond(c) ==
    /\ running \in {0, c}
    /\ inflight[c].pc = "call"
    /\ \E reply \in LongReplies, fault \in ConcFaults :
        LET req == inflight[c]
            env == [reply |-> reply, fault |-> fault, text |-> ClientAnswer(c)]
            out == get_response(strip(req.message),
                                HistoryAlias(conversations, req), env,
                                settings.SIMILARITY_THRESHOLD)
        IN  /\ inflight' = [inflight EXCEPT
                                ![c].pc = "update",
                                ![c].response = out.response,
                                ![c].sources = out.sources,
                                ![c].alias = IF req.detached THEN out.history ELSE @]
            /\ conversations' =
                    IF req.detached THEN conversations
                    ELSE [conversations EXCEPT ![req.session_id] = out.history]
    /\ running' = LoopAfter(c, "update")
    /\ UNCHANGED <<settings, last, turns, failures>>

\* chat, app.py:105-129: the two appends on conversations[session_id] (a
\* KeyError when the session is no longer stored, turned into status 500 by
\* the except branch), the slice, the response
ChatUpdate(c) ==
    /\ running \in {0, c}
    /\ inflight[c].pc = "update"
    /\ LET req == inflight[c]
           s == req.session_id
       IN  IF s \notin DOMAIN conversations
           THEN /\ inflight' = [inflight EXCEPT ![c].pc = "done",
                                                ![c].status = ExceptionStatus(500)]
                /\ UNCHANGED conversations
           ELSE LET appended == AppendTurn(conversations[s], strip(req.message),
                                           req.response)
                    rebound == Len(appended) > MaxStoredMessages
                    others == IF rebound
                              THEN Detach(inflight, [conversations EXCEPT ![s] = appended], s)
                              ELSE inflight
                IN  /\ conversations' = [conversations EXCEPT ![s] = Truncate(appended)]
                    /\ inflight' = [others EXCEPT ![c].pc = "done",
                                                  ![c].status = 200,
                                                  ![c].stored = TRUE]
    /\ running' = LoopAfter(c, "done")
    /\ UNCHANGED <<settings, last, turns, failures>>

\* DELETE /conversation/{session_id}, app.py:145-151, one step of the loop
ConcClear ==
    /\ running = 0
    /\ LET r == clear_conversation(conversations, ConcSession)
       IN  /\ conversations' = r.conversations
           /\ last' = r.result
           /\ inflight' =
                IF ConcSession \in DOMAIN conversations
                THEN LET d == Detach(inflight, conversations, ConcSession)
                     IN  [c \in DOMAIN d |-> [d[c] EXCEPT !.stored = FALSE]]
                ELSE inflight
    /\ UNCHANGED <<settings, turns, failures, running>>

ConcNext ==
    \/ \E c \in Clients : ChatEnter(c)
    \/ \E c \in Clients : ChatRespond(c)
    \/ \E c \in Clients : ChatUpdate(c)
    \/ ConcClear

ConcSpec == ConcInit /\ [][ConcNext]_vars

----------------
(* Properties *)

StoredHistory(session_id) ==
    get_conversation(conversations, session_id).result.history

\* C1: in every reachable state every stored session's history has at most
\* 20 messages and an even number of messages.
C1_HistoryBoundedAndEven ==
    \A s \in DOMAIN conversations :
        /\ Len(conversations[s]) <= 20
        /\ Len(conversations[s]) % 2 = 0

\* C1 witness: a turn whose completion request failed was handled on a
\* session that already held 20 messages.
C1_Witness ==
    /\ last.op = "chat" /\ last.status = 200 /\ last.prior_len = 20
    /\ last.fault # "none"
    /\ Len(conversations[last.session_id]) = 20

\* C2: a chat turn during which retrieval or the completion request fails
\* leaves the store as it was before the turn.
C2_FailedTurnLeavesStore ==
    [][(last'.op = "chat" /\ last'.fault # "none") => conversations' = conversations]_vars

\* C3: a chat turn with a non-empty message during which the embedding
\* request, the index search (of either search) or the completion request
\* fails ends with status 200, the fallback text and no sources.
C3_FailureGivesFallback ==
    (last.op = "chat" /\ last.fault # "none")
        => /\ last.status = 200
           /\ last.response = fallback_response
           /\ last.sources = <<>>

\* C3 witness: the second search (for the sources) failed after the first
\* one had produced a context from two documents.
C3_Witness ==
    /\ last.op = "chat" /\ last.fault = "index2"
    /\ last.context # <<>> /\ last.context # NoContext
    /\ last.status = 200

\* C4: a chat request whose message is empty after stripping is answered
\* with a 4xx status, without invoking retrieval or completion and without
\* changing the store.
C4_EmptyMessageIsClientError ==
    [][(last'.op = "chat" /\ strip(last'.message) = <<>>)
            => /\ last'.status \in 400..499
               /\ ~last'.called /\ ~last'.completed
               /\ conversations' = conversations]_vars

\* C5: after a chat turn answered with status 200, reading the session's
\* history gives a sequence ending with the user message (stripped) and then
\* the assistant message holding the returned response; when the history was
\* empty before the turn, it is exactly these two messages.
C5_TailIsTheTurn ==
    (last.op = "chat" /\ last.status = 200)
        => LET h == StoredHistory(last.session_id)
               n == Len(h)
           IN  /\ n >= 2
               /\ h[n - 1] = [role |-> "user", content |-> strip(last.message)]
               /\ h[n] = [role |-> "assistant", content |-> last.response]
               /\ last.prior_len = 0 => n = 2

\* C5 witness: a completed turn with a message carrying surrounding
\* whitespace, on a session that held 20 messages.
C5_Witness ==
    /\ last.op = "chat" /\ last.status = 200 /\ last.completed
    /\ last.message # strip(last.message)
    /\ last.prior_len = 20

\* The history of a session before a step: [] for a session not stored
HistoryOf(convs, session_id) ==
    IF session_id \in DOMAIN convs THEN convs[session_id] ELSE <<>>

\* C6: after a chat turn the stored history is the last 20 messages of the
\* history before the turn followed by the new user and assistant messages.
C6_SlidingWindow ==
    [][(last'.op = "chat" /\ last'.status = 200)
            => LET s == last'.session_id
                   all == HistoryOf(conversations, s)
                            \o << [role |-> "user", content |-> strip(last'.message)],
                                  [role |-> "assistant", content |-> last'.response] >>
               IN  /\ s \in DOMAIN conversations'
                   /\ conversations'[s] =
                        [i \in 1..(IF Len(all) > 20 THEN 20 ELSE Len(all)) |->
                            all[i + (IF Len(all) > 20 THEN Len(all) - 20 ELSE 0)]]]_vars

\* C6 witness: the eleventh consecutive turn of a session has been handled,
\* and a fallback exchange is among the ten that remain.
C6_Witness ==
    /\ last.op = "chat" /\ last.status = 200 /\ last.prior_len = 20
    /\ turns = 11
    /\ DOMAIN conversations = {last.session_id}
    /\ \E i \in 1..20 : conversations[last.session_id][i].content = fallback_response

\* C7: reading or clearing a session that is not stored answers with status
\* 200 and leaves the store unchanged (the read returns an empty history);
\* after a clear the session is not stored, and clearing it again changes
\* nothing.
C7_UnknownSessionIsNoError ==
    [][/\ (last'.op = "get" /\ last'.session_id \notin DOMAIN conversations)
            => /\ last'.status = 200
               /\ last'.history = <<>>
               /\ conversations' = conversations
       /\ (last'.op = "clear" /\ last'.session_id \notin DOMAIN conversations)
            => /\ last'.status = 200
               /\ conversations' = conversations
       /\ (last'.op = "clear")
            => /\ last'.status = 200
               /\ last'.session_id \notin DOMAIN conversations'
               /\ clear_conversation(conversations', last'.session_id).conversations
                    = conversations']_vars

\* C7 witness: a session that is not stored was cleared while the other
\* session is stored.
C7_Witness ==
    /\ last.op = "clear" /\ last.detail = "not found"
    /\ DOMAIN conversations = SessionIds \ {last.session_id}

\* The pairs of a reply whose index is a position of the metadata
InRange(pair) == 0 <= pair.idx /\ pair.idx < MetaLen

\* The result a pair stands for: the document at its index, with its similarity
ResultOf(pair) ==
    [doc |-> metadata[pair.idx + 1],
     score |-> [n |-> pair.distance.d, d |-> pair.distance.d + pair.distance.n]]

\* a is b with some elements left out
RECURSIVE IsSubSeq(_, _)
IsSubSeq(a, b) ==
    IF a = <<>> THEN TRUE
    ELSE IF b = <<>> THEN FALSE
    ELSE IF Head(a) = Head(b) THEN IsSubSeq(Tail(a), Tail(b))
    ELSE IsSubSeq(a, Tail(b))

\* C8: when no external call fails, search does not fail, and what it
\* returns is made only of the results of pairs whose index is within
\* 0..len(metadata)-1, in their order: a pair with an index outside (too
\* large or negative) emits nothing.
C8_OutOfRangeIndexSkipped ==
    (last.op = "search" /\ last.fault = "none")
        => /\ last.ok
           /\ LET inside == SelectSeq(last.pairs, InRange)
              IN  IsSubSeq(last.results,
                           [i \in 1..Len(inside) |-> ResultOf(inside[i])])

\* C9: when no external call fails, search returns exactly the results of
\* the in-range pairs whose similarity 1/(1+distance) is at least the
\* threshold, in the order of the reply, at most top_k of them, and does not
\* fail (an empty sequence when none qualifies).
C9_ExactlyTheQualifyingNeighbours ==
    (last.op = "search" /\ last.fault = "none")
        => /\ last.ok
           /\ Len(last.results) <= TOP_K_RESULTS
           /\ \A i \in 1..Len(last.results) :
                last.results[i].score.n * settings.SIMILARITY_THRESHOLD.d
                    >= settings.SIMILARITY_THRESHOLD.n * last.results[i].score.d
           /\ LET Qualifies(p) ==
                      /\ InRange(p)
                      /\ p.distance.d * settings.SIMILARITY_THRESHOLD.d
                            >= settings.SIMILARITY_THRESHOLD.n
                                * (p.distance.d + p.distance.n)
                  keep == SelectSeq(last.pairs, Qualifies)
              IN  last.results = [i \in 1..Len(keep) |-> ResultOf(keep[i])]

\* A reply with no in-range neighbour at or above the threshold
NoMatch(pairs, threshold) ==
    \A i \in 1..Len(pairs) :
        InRange(pairs[i])
            => pairs[i].distance.d * threshold.d
                    < threshold.n * (pairs[i].distance.d + pairs[i].distance.n)

\* C10: a chat turn whose query has no match at or above the threshold and
\* during which no external call fails: the context is the sentinel text,
\* the completion request is made with a prompt whose last message carries
\* the sentinel and the query, the turn returns the completion's text and no
\* sources with status 200, and the exchange is the tail of the history.
C10_NoMatchStillCompletes ==
    (last.op = "chat" /\ last.called /\ last.fault = "none"
        /\ NoMatch(last.pairs, settings.SIMILARITY_THRESHOLD))
        => /\ last.status = 200
           /\ last.context = <<"No relevant information found in the knowledge base.">>
           /\ last.completed
           /\ last.prompt # <<>>
           /\ last.prompt[Len(last.prompt)].role = "user"
           /\ IsSubSeq(last.context \o <<"\n", "\n", "Question:", " ">>
                            \o strip(last.message),
                       last.prompt[Len(last.prompt)].content)
           /\ last.response \in CompletionTexts
           /\ last.response # fallback_response
           /\ last.sources = <<>>
           /\ LET h == conversations[last.session_id]
              IN  /\ Len(h) = last.prior_len + 2
                  /\ h[Len(h) - 1] = [role |-> "user", content |-> strip(last.message)]
                  /\ h[Len(h)] = [role |-> "assistant", content |-> last.response]

\* C10 witness: such a turn on a session that already holds an exchange
C10_Witness ==
    /\ last.op = "chat" /\ last.called /\ last.fault = "none"
    /\ NoMatch(last.pairs, settings.SIMILARITY_THRESHOLD)
    /\ last.completed /\ last.prior_len = 2

\* C11: build_prompt returns 1 + min(len(history), 2*MAX_HISTORY_LENGTH) + 1
\* messages: the system message, then the most recent 2*MAX_HISTORY_LENGTH
\* messages of the history in their order, then one user message carrying
\* the context and the query; and the history list passed in is unchanged.
C11_PromptShape ==
    (last.op = "build_prompt")
        => LET n == Len(last.history)
               k == IF n < 2 * MAX_HISTORY_LENGTH THEN n ELSE 2 * MAX_HISTORY_LENGTH
               final == last.prompt[Len(last.prompt)]
           IN  /\ Len(last.prompt) = 1 + k + 1
               /\ last.prompt[1].role = "system"
               /\ last.prompt[1].content = <<"You are Yoga Master Dhalsim ...">>
               /\ \A i \in 1..k : last.prompt[1 + i] = last.history[n - k + i]
               /\ final.role = "user"
               /\ IsSubSeq(<<"Context:", "\n">> \o last.context
                                \o <<"\n", "\n", "Question:", " ">> \o last.message,
                           final.content)
               /\ last.history_after = last.history

\* C11 witness: a call with a history longer than 2*MAX_HISTORY_LENGTH that
\* starts with an assistant message
C11_Witness ==
    /\ last.op = "build_prompt"
    /\ Len(last.history) = 22
    /\ last.history[1].role = "assistant"
    /\ Len(last.prompt) = 22

\* C13: with requests handled one at a time, every stored history alternates
\* user, assistant, user, assistant, ...: it begins with a user message (also
\* after truncation to 20), ends with an assistant message, and holds no
\* system message.
C13_RolesAlternate ==
    \A s \in DOMAIN conversations :
        LET h == conversations[s]
        IN  /\ h # <<>> => h[1].role = "user" /\ h[Len(h)].role = "assistant"
            /\ \A i \in 1..Len(h) :
                /\ h[i].role \in {"user", "assistant"}
                /\ h[i].role = IF i % 2 = 1 THEN "user" ELSE "assistant"

\* C13 witness: the eleventh turn in a row of a session has been handled and
\* has evicted the exchange of the first, which had ended with the fallback
C13_Witness ==
    /\ last.op = "chat" /\ last.prior_len = 20 /\ turns = 11 /\ failures = 1
    /\ Len(conversations[last.session_id]) = 20
    /\ \A i \in 1..20 :
          conversations[last.session_id][i].content # fallback_response

\* Positions i, i+1 of history h hold the exchange of request req
ExchangeAt(h, i, req) ==
    /\ h[i] = [role |-> "user", content |-> strip(req.message)]
    /\ h[i + 1] = [role |-> "assistant", content |-> req.response]

\* C12: with chat and clear requests in flight at once on one session id,
\* (1) from its read of the history to its append a request sees the stored
\* list as it read it; (2) the stored history is made of whole exchanges,
\* each user message followed by the response of the same request; (3) the
\* exchange of every request that ended, the session not cleared since, is
\* in the history; (4) no request ends with an error.
C12_TurnsAtomic ==
    /\ \A c \in Clients :
        inflight[c].pc \in {"call", "update"}
            => /\ ~inflight[c].detached
               /\ inflight[c].session_id \in DOMAIN conversations
               /\ conversations[inflight[c].session_id] = inflight[c].history_read
    /\ \A s \in DOMAIN conversations :
        LET h == conversations[s]
        IN  /\ Len(h) % 2 = 0
            /\ \A i \in 1..Len(h) :
                i % 2 = 1 =>
                    \E c \in Clients :
                        /\ inflight[c].pc = "done" /\ inflight[c].status = 200
                        /\ ExchangeAt(h, i, inflight[c])
    /\ \A c \in Clients :
        inflight[c].stored
            => /\ inflight[c].session_id \in DOMAIN conversations
               /\ \E i \in 1..Len(conversations[inflight[c].session_id]) :
                    /\ i % 2 = 1
                    /\ ExchangeAt(conversations[inflight[c].session_id], i, inflight[c])
    /\ \A c \in Clients :
        inflight[c].pc = "done" => inflight[c].status = 200

\* C12 witness: all requests have arrived together; two have ended, one of
\* them before a clear and one after it, and the third is being handled
C12_Witness ==
    /\ \E c1, c2, c3 \in Clients :
        /\ inflight[c1].pc = "done" /\ ~inflight[c1].stored
        /\ inflight[c1].status = 200
        /\ inflight[c2].pc = "done" /\ inflight[c2].stored
        /\ inflight[c3].pc = "update" /\ running = c3
    /\ last.op = "clear" /\ last.detail = "cleared"

====
